---- MODULE Spec2Model ----
(***************************************************************************)
(* Model of glb_bulk_optimizer.py: the batch loop of main(), the per-file  *)
(* driver process_glb_file() with clear_scene / import_file / the material *)
(* sanitizer / the texture pass / export_file, and the two pure decision   *)
(* functions has_alpha_channel() and get_texture_format().                 *)
(*                                                                         *)
(* Strings the program inspects (names, extensions, error messages) are    *)
(* tuples of one-character strings, so that str.lower() and the `in`       *)
(* substring test are computed and not assumed.  Alpha values are in       *)
(* hundredths (0.98 is 98).  File sizes are whole size units.              *)
(***************************************************************************)
EXTENDS Integers, Sequences, FiniteSets, TLC

VARIABLES
    config,            \* the CONFIGURATION VARIABLES block (module globals)
    host,              \* the host: glob/file-system case rule, which bpy calls may raise
    input_dir,         \* files of INPUT_DIR, or "missing"
    output_dir,        \* names present in OUTPUT_DIR
    glb_files,         \* main(): the enumerated list
    pc,                \* position of main() / process_glb_file()
    cursor,            \* main(): i of enumerate(glb_files, 1)
    stats,             \* main(): processed/skipped/error counts, size totals
    scene,             \* bpy.data (one process-wide scene)
    proc,              \* process_glb_file(): locals of the running call
    fileLog,           \* history: what was done for each enumerated entry
    summary,           \* history: the lines of the final summary, once emitted
    query,             \* argument of the pure function under check
    answer             \* its result

vars == <<config, host, input_dir, output_dir, glb_files, pc, cursor, stats,
          scene, proc, fileLog, summary, query, answer>>

batchVars == <<config, host, input_dir, output_dir, glb_files, pc, cursor,
               stats, scene, proc, fileLog, summary>>

----------------------------------------------------------------------------
(* Strings *)

UpperChars == <<"A", "B", "C", "D", "E", "F", "G", "H", "I", "J", "K", "L", "M", "N", "O", "P", "Q", "R", "S", "T", "U", "V", "W", "X", "Y", "Z">>
LowerChars == <<"a", "b", "c", "d", "e", "f", "g", "h", "i", "j", "k", "l", "m", "n", "o", "p", "q", "r", "s", "t", "u", "v", "w", "x", "y", "z">>

\* str.lower() on one character
LowerChar(c) ==
    IF \E i \in 1..Len(UpperChars) : UpperChars[i] = c
    THEN LowerChars[CHOOSE i \in 1..Len(UpperChars) : UpperChars[i] = c]
    ELSE c

\* str.lower()
Lower(s) == [i \in 1..Len(s) |-> LowerChar(s[i])]

\* `needle in hay` on strings
Contains(hay, needle) ==
    \E i \in 0..(Len(hay) - Len(needle)) :
        SubSeq(hay, i + 1, i + Len(needle)) = needle

\* any(keyword in s for keyword in keywords)
AnyKeywordIn(keywords, s) == \E k \in keywords : Contains(s, k)

KW_normal == <<"n", "o", "r", "m", "a", "l">>
KW_nrm == <<"n", "r", "m">>
KW_bump == <<"b", "u", "m", "p">>
KW_roughness == <<"r", "o", "u", "g", "h", "n", "e", "s", "s">>
KW_metallic == <<"m", "e", "t", "a", "l", "l", "i", "c">>
KW_alpha == <<"a", "l", "p", "h", "a">>
KW_opacity == <<"o", "p", "a", "c", "i", "t", "y">>
KW_mask == <<"m", "a", "s", "k">>
KW_specular_tint == <<"s", "p", "e", "c", "u", "l", "a", "r", "_", "t", "i", "n", "t">>
KW_spectint == <<"s", "p", "e", "c", "t", "i", "n", "t">>
KW_spec_tint == <<"s", "p", "e", "c", "_", "t", "i", "n", "t">>
KW_specular_tint_sp == <<"s", "p", "e", "c", "u", "l", "a", "r", " ", "t", "i", "n", "t">>
KW_bone == <<"b", "o", "n", "e">>
KW_animation == <<"a", "n", "i", "m", "a", "t", "i", "o", "n">>

PrecisionKeywords == {KW_normal, KW_nrm, KW_bump, KW_roughness, KW_metallic}
AlphaNameKeywords == {KW_alpha, KW_opacity, KW_mask}
SpecularTintKeywords == {KW_specular_tint, KW_spectint, KW_spec_tint, KW_specular_tint_sp}
AnimationErrorKeywords == {KW_bone, KW_animation}

EXT_glb == <<".", "g", "l", "b">>
EXT_GLB == <<".", "G", "L", "B">>
EXT_gltf == <<".", "g", "l", "t", "f">>
EXT_GLTF == <<".", "G", "L", "T", "F">>
EXT_vrm == <<".", "v", "r", "m">>
EXT_VRM == <<".", "V", "R", "M">>
EXT_Gltf == <<".", "G", "l", "t", "f">>

\* names and messages the inputs are drawn from
NM_body_diffuse == <<"b", "o", "d", "y", "_", "d", "i", "f", "f", "u", "s", "e">>
NM_Body_Normal == <<"B", "o", "d", "y", "_", "N", "o", "r", "m", "a", "l">>
NM_hair_NRM == <<"h", "a", "i", "r", "_", "N", "R", "M">>
NM_Bump == <<"B", "u", "m", "p">>
NM_ROUGHNESS == <<"R", "O", "U", "G", "H", "N", "E", "S", "S">>
NM_metallicMap == <<"m", "e", "t", "a", "l", "l", "i", "c", "M", "a", "p">>
NM_AlphaMask == <<"A", "l", "p", "h", "a", "M", "a", "s", "k">>
NM_opacity == <<"o", "p", "a", "c", "i", "t", "y">>
NM_leaf_mask == <<"l", "e", "a", "f", "_", "m", "a", "s", "k">>
NM_norma == <<"n", "o", "r", "m", "a">>
NM_specular_tint_map == <<"s", "p", "e", "c", "u", "l", "a", "r", "_", "t", "i", "n", "t", "_", "m", "a", "p">>
NM_SpecTint == <<"S", "p", "e", "c", "T", "i", "n", "t">>
NM_skin == <<"s", "k", "i", "n">>
NM_Image_Texture == <<"I", "m", "a", "g", "e", " ", "T", "e", "x", "t", "u", "r", "e">>
NM_Spec_Tint_Tex == <<"S", "p", "e", "c", "_", "T", "i", "n", "t", " ", "T", "e", "x">>
MSG_bone == <<"B", "o", "n", "e", " ", "i", "n", "d", "e", "x", " ", "o", "u", "t", " ", "o", "f", " ", "r", "a", "n", "g", "e">>
MSG_anim == <<"I", "n", "v", "a", "l", "i", "d", " ", "A", "N", "I", "M", "A", "T", "I", "O", "N", " ", "s", "a", "m", "p", "l", "e", "r">>
MSG_other == <<"u", "n", "e", "x", "p", "e", "c", "t", "e", "d", " ", "e", "n", "d", " ", "o", "f", " ", "f", "i", "l", "e">>

Max(a, b) == IF a >= b THEN a ELSE b
SetMin(S) == CHOOSE x \in S : \A y \in S : x <= y

----------------------------------------------------------------------------
(* has_alpha_channel(image)                                                *)
(*                                                                         *)
(* An image's pixel buffer is [len, low, lowVal, readable]: len floats,    *)
(* of which the alpha values (pixels[3::4]) are fully opaque (100) except  *)
(* at the alpha indices in low, where they are lowVal; reading the buffer  *)
(* raises when readable is FALSE.                                          *)

NoImage == [none |-> TRUE]

SampleLimit == 1000
AlphaThreshold == 98

\* len(pixels[3::4])
AlphaCount(px) == IF px.len >= 4 THEN ((px.len - 4) \div 4) + 1 ELSE 0

\* alpha_values[i]
AlphaAt(px, i) == IF i \in px.low THEN px.lowVal ELSE 100

\* sample_step = max(1, len(alpha_values) // 1000)
sample_step(n) == Max(1, n \div SampleLimit)

\* range(0, len(alpha_values), sample_step)
SampleRange(n) == {i \in 0..(n - 1) : i % sample_step(n) = 0}

\* the for loop of has_alpha_channel: whether it returned True, and the
\* indices it read before it returned
AlphaScan(px) ==
    LET n    == AlphaCount(px)
        hits == {i \in SampleRange(n) : AlphaAt(px, i) < AlphaThreshold}
    IN  IF hits = {}
        THEN [found |-> FALSE, inspected |-> SampleRange(n)]
        ELSE [found |-> TRUE,
              inspected |-> {i \in SampleRange(n) : i <= SetMin(hits)}]

IsNone(image) == "none" \in DOMAIN image

\* which return statement of has_alpha_channel is taken
AlphaPath(image) ==
    IF IsNone(image) THEN "no_image"
    ELSE IF image.pixels.len = 0 THEN "no_pixels"
    ELSE IF image.pixels.len % 4 # 0 THEN "no_alpha_plane"
    ELSE IF ~image.pixels.readable THEN "except"
    ELSE "scan"

has_alpha_channel(image) ==
    IF AlphaPath(image) = "scan" THEN AlphaScan(image.pixels).found ELSE FALSE

----------------------------------------------------------------------------
(* get_texture_format(image_name, node_type, image) *)

\* faulty variant: the alpha test of the aggressive branch is made before the
\* precision keywords are looked at
get_texture_format_AlphaFirst(image_name, node_type, image) ==
    IF config.TEXTURE_FORMAT = "PNG" THEN "PNG"
    ELSE IF config.TEXTURE_FORMAT = "JPEG" THEN "JPEG"
    ELSE LET name_lower == Lower(image_name) IN
         IF config.AGGRESSIVE_JPEG_CONVERSION
         THEN IF ~IsNone(image) /\ has_alpha_channel(image)
              THEN "PNG" ELSE "JPEG"
         ELSE IF AnyKeywordIn(PrecisionKeywords \cup AlphaNameKeywords, name_lower)
              THEN "PNG" ELSE "JPEG"

get_texture_format(image_name, node_type, image) ==
    IF config.TEXTURE_FORMAT = "PNG" THEN "PNG"
    ELSE IF config.TEXTURE_FORMAT = "JPEG" THEN "JPEG"
    ELSE LET name_lower == Lower(image_name) IN
         IF AnyKeywordIn(PrecisionKeywords, name_lower) THEN "PNG"
         ELSE IF config.AGGRESSIVE_JPEG_CONVERSION
              THEN IF ~IsNone(image) /\ has_alpha_channel(image)
                   THEN "PNG" ELSE "JPEG"
              ELSE IF AnyKeywordIn(AlphaNameKeywords, name_lower)
                   THEN "PNG" ELSE "JPEG"

----------------------------------------------------------------------------
(* Bounds of the model *)

MaxFiles == 2        \* files in INPUT_DIR
MaxFaults == 1       \* host calls that raise during one run
MaxOutSize == 1      \* size of an exported file, in size units
MaxDim == 3          \* largest TARGET_RESOLUTION drawn
MaxBlocks == 2       \* alpha planes of up to MaxBlocks * SampleLimit values

IdBase == 10         \* datablock id = owner entry * IdBase + local index

----------------------------------------------------------------------------
(* Paths: a file is [stem, suffix]; its name is stem + suffix. *)

File(stem, suffix) == [stem |-> stem, suffix |-> suffix]

\* get_file_type(filepath)
get_file_type(filepath) ==
    LET ext == Lower(filepath.suffix) IN
    IF ext \in {EXT_glb, EXT_gltf} THEN "gltf"
    ELSE IF ext = EXT_vrm THEN "vrm"
    ELSE "unknown"

\* main(): the output filename of one enumerated file
output_filename(glb_file) ==
    IF get_file_type(glb_file) = "vrm" THEN File(glb_file.stem, EXT_vrm)
    ELSE IF config.PRESERVE_FORMAT THEN glb_file
    ELSE File(glb_file.stem, EXT_glb)

\* two names denote one directory entry (a case-insensitive file system
\* folds case; stems of the model are lower case)
SameEntry(p, q) ==
    /\ p.stem = q.stem
    /\ IF host.ignorecase THEN Lower(p.suffix) = Lower(q.suffix)
       ELSE p.suffix = q.suffix

\* Path.exists() of a name in a directory
Exists(dir, p) == \E q \in dir : SameEntry(p, q)

\* the directory after a file named p was written into it
WithFile(dir, p) == IF Exists(dir, p) THEN dir ELSE dir \cup {p}

\* the six patterns of main(), in the order their results are concatenated
GlobPatterns == <<EXT_glb, EXT_GLB, EXT_gltf, EXT_GLTF, EXT_vrm, EXT_VRM>>

\* Path.glob("*" + pat) matching one name: pathlib compiles the pattern
\* case-insensitively on Windows and case-sensitively elsewhere
GlobMatches(f, pat) ==
    IF host.ignorecase THEN Lower(f.suffix) = Lower(pat) ELSE f.suffix = pat

\* the entries of a directory listing that match one pattern, in its order
RECURSIVE GlobList(_, _)
GlobList(listing, pat) ==
    IF listing = <<>> THEN <<>>
    ELSE (IF GlobMatches(Head(listing), pat) THEN <<Head(listing)>> ELSE <<>>)
         \o GlobList(Tail(listing), pat)

\* glb_files of main(): the six glob results concatenated
RECURSIVE EnumerateFrom(_, _)
EnumerateFrom(listing, k) ==
    IF k > Len(GlobPatterns) THEN <<>>
    ELSE GlobList(listing, GlobPatterns[k]) \o EnumerateFrom(listing, k + 1)

\* the orders in which the host may list a directory
Listings(dir) ==
    {s \in [1..Cardinality(dir) -> dir] :
        \A i, j \in 1..Cardinality(dir) : i # j => s[i] # s[j]}

----------------------------------------------------------------------------
(* Assets: what the host's importer creates for each input file. *)

Px(len, low) == [len |-> len, low |-> low, lowVal |-> 50, readable |-> TRUE]

Img(name, w, h, packed, fmt, px) ==
    [name |-> name, size |-> <<w, h>>, orig |-> <<w, h>>, packed |-> packed,
     file_format |-> fmt, pixels |-> px, idprops |-> {}, lossy |-> FALSE,
     ops |-> <<>>]

NoInputs == [x \in {} |-> 0]

TexNode(nid, name, image) ==
    [nid |-> nid, type |-> "TEX_IMAGE", name |-> name, image |-> image,
     inputs |-> NoInputs]

OtherNode(nid, type) ==
    [nid |-> nid, type |-> type, name |-> NM_skin, image |-> 0,
     inputs |-> NoInputs]

FloatInput(v) == [kind |-> "float", default_value |-> v]
ColorInput(v) == [kind |-> "color", default_value |-> v]

\* a Principled BSDF of Blender 3.x (Specular, float Specular Tint)
Principled3(nid) ==
    [nid |-> nid, type |-> "BSDF_PRINCIPLED", name |-> NM_skin, image |-> 0,
     inputs |-> [n \in {"Specular", "Specular Tint"} |->
                    IF n = "Specular" THEN FloatInput(50) ELSE FloatInput(0)]]

\* a Principled BSDF of Blender 4.x (Specular IOR Level, color Specular Tint)
Principled4(nid) ==
    [nid |-> nid, type |-> "BSDF_PRINCIPLED", name |-> NM_skin, image |-> 0,
     inputs |-> [n \in {"Specular IOR Level", "Specular Tint"} |->
                    IF n = "Specular IOR Level" THEN FloatInput(50)
                    ELSE ColorInput(<<50, 50, 50, 100>>)]]

Link(from, to, socket) == [from |-> from, to |-> to, socket |-> socket]

Mat(users, use_nodes, nodes, links) ==
    [users |-> users, use_nodes |-> use_nodes, nodes |-> nodes,
     links |-> links, specular_intensity |-> 50, edits |-> <<>>,
     cleaned |-> FALSE, failed |-> 0]

FileA_glb == File("a", EXT_glb)
FileA_gltf == File("a", EXT_gltf)
FileB_GLB == File("b", EXT_GLB)
FileB_vrm == File("b", EXT_vrm)
FileC_Gltf == File("c", EXT_Gltf)

FilePool == {FileA_glb, FileA_gltf, FileB_GLB, FileB_vrm, FileC_Gltf}

\* a.glb: a texture shared by two used materials, a texture too large in
\* one dimension only, and an unused material
AssetA_glb ==
    [size |-> 4, node_groups |-> FALSE, collections |-> FALSE,
     images |-> <<Img(NM_skin, 3, 3, TRUE, "PNG", Px(16, {})),
                  Img(NM_Body_Normal, 1, 3, TRUE, "PNG", Px(16, {})),
                  Img(NM_body_diffuse, 3, 3, TRUE, "PNG", Px(16, {}))>>,
     materials |-> <<
        Mat(1, TRUE, <<TexNode(1, NM_Image_Texture, 1),
                       TexNode(2, NM_Image_Texture, 2), Principled3(3)>>,
            {Link(1, 3, "Base Color"), Link(2, 3, "Normal")}),
        Mat(1, TRUE, <<TexNode(1, NM_Image_Texture, 1), Principled3(2)>>,
            {Link(1, 2, "Base Color")}),
        Mat(0, TRUE, <<TexNode(1, NM_Image_Texture, 3)>>, {})>>]

\* a.gltf: a specular tint texture, an externally referenced texture that
\* uses transparency, a glossy node and a material without a node tree
AssetA_gltf ==
    [size |-> 2, node_groups |-> FALSE, collections |-> FALSE,
     images |-> <<Img(NM_specular_tint_map, 2, 2, FALSE, "PNG", Px(16, {})),
                  Img(NM_leaf_mask, 3, 2, FALSE, "PNG", Px(16, {2}))>>,
     materials |-> <<
        Mat(1, FALSE, <<>>, {}),
        Mat(1, TRUE, <<TexNode(1, NM_Image_Texture, 1),
                       TexNode(2, NM_Image_Texture, 2), Principled4(3),
                       OtherNode(4, "BSDF_GLOSSY")>>,
            {Link(1, 3, "Specular Tint"), Link(2, 3, "Alpha"),
             Link(2, 4, "Color")})>>]

\* b.GLB: an empty file on disk holding one small texture, and a texture
\* node named SpecTint that has no image bound
AssetB_GLB ==
    [size |-> 0, node_groups |-> FALSE, collections |-> FALSE,
     images |-> <<Img(NM_skin, 2, 1, TRUE, "JPEG", Px(8, {}))>>,
     materials |-> <<
        Mat(1, TRUE, <<TexNode(1, NM_Image_Texture, 1), Principled4(2),
                       TexNode(3, NM_SpecTint, 0)>>,
            {Link(1, 2, "Base Color"), Link(3, 2, "Emission")})>>]

\* b.vrm: one texture bound to two nodes of one material
AssetB_vrm ==
    [size |-> 3, node_groups |-> TRUE, collections |-> TRUE,
     images |-> <<Img(NM_AlphaMask, 3, 1, TRUE, "PNG", Px(12, {0}))>>,
     materials |-> <<
        Mat(2, TRUE, <<TexNode(1, NM_Image_Texture, 1),
                       TexNode(2, NM_Image_Texture, 1),
                       OtherNode(3, "GROUP")>>,
            {Link(1, 3, "Color"), Link(2, 3, "Alpha")})>>]

\* c.Gltf: a texture node that is a specular tint node by its node name
AssetC_Gltf ==
    [size |-> 1, node_groups |-> FALSE, collections |-> TRUE,
     images |-> <<Img(NM_skin, 1, 1, FALSE, "PNG", Px(4, {}))>>,
     materials |-> <<
        Mat(1, TRUE, <<TexNode(1, NM_Spec_Tint_Tex, 1), Principled3(2)>>,
            {Link(1, 2, "Specular Tint")})>>]

AssetOf(f) ==
    IF f = FileA_glb THEN AssetA_glb
    ELSE IF f = FileA_gltf THEN AssetA_gltf
    ELSE IF f = FileB_GLB THEN AssetB_GLB
    ELSE IF f = FileB_vrm THEN AssetB_vrm
    ELSE AssetC_Gltf

\* os.path.getsize of an input file
InputSize(f) == AssetOf(f).size

Restrict(f, S) == [x \in S |-> f[x]]

----------------------------------------------------------------------------
(* The scene (bpy.data) *)

EmptyScene ==
    [objects |-> {}, meshes |-> {}, materials |-> NoInputs,
     images |-> NoInputs, textures |-> {}, node_groups |-> {},
     collections |-> {}]

SceneIsEmpty(s) ==
    /\ s.objects = {} /\ s.meshes = {} /\ s.textures = {}
    /\ s.node_groups = {} /\ s.collections = {}
    /\ DOMAIN s.materials = {} /\ DOMAIN s.images = {}

\* the entry (owner) a datablock id was imported for
OwnerOf(id) == id \div IdBase

\* the entries that still have a datablock in the scene
SceneOwners(s) ==
    s.objects \cup s.meshes \cup s.textures \cup s.node_groups
      \cup s.collections \cup {OwnerOf(id) : id \in DOMAIN s.materials}
      \cup {OwnerOf(id) : id \in DOMAIN s.images}

\* clear_scene(): the teardown steps in program order; a step that raises
\* ends the function (the except clause only logs), leaving that step's
\* datablocks and those of every later step in place.  failAt = 0: no step
\* raises.  Materials whose meshes were removed have no users left.
ClearSteps == <<"objects", "meshes", "materials", "images", "textures",
                "node_groups", "collections">>

StepDone(failAt, k) == failAt = 0 \/ k < failAt

clear_scene(s, failAt) ==
    [objects     |-> IF StepDone(failAt, 1) THEN {} ELSE s.objects,
     meshes      |-> IF StepDone(failAt, 2) THEN {} ELSE s.meshes,
     materials   |-> IF StepDone(failAt, 3) THEN NoInputs
                     ELSE IF StepDone(failAt, 2)
                          THEN [id \in DOMAIN s.materials |->
                                   [s.materials[id] EXCEPT !.users = 0]]
                          ELSE s.materials,
     images      |-> IF StepDone(failAt, 4) THEN NoInputs ELSE s.images,
     textures    |-> IF StepDone(failAt, 5) THEN {} ELSE s.textures,
     node_groups |-> IF StepDone(failAt, 6) THEN {} ELSE s.node_groups,
     collections |-> IF StepDone(failAt, 7) THEN {} ELSE s.collections]

\* the datablocks the importer creates for entry o from file f
Imported(s, o, f) ==
    LET a    == AssetOf(f)
        gid(k) == o * IdBase + k
        mats == [id \in {gid(k) : k \in 1..Len(a.materials)} |->
                   LET m == a.materials[id - o * IdBase] IN
                   [m EXCEPT !.nodes =
                       [i \in 1..Len(m.nodes) |->
                           IF m.nodes[i].image = 0 THEN m.nodes[i]
                           ELSE [m.nodes[i] EXCEPT !.image = gid(@)]]]]
        imgs == [id \in {gid(k) : k \in 1..Len(a.images)} |->
                   a.images[id - o * IdBase]]
    IN  [objects     |-> s.objects \cup {o},
         meshes      |-> s.meshes \cup {o},
         materials   |-> mats @@ s.materials,
         images      |-> imgs @@ s.images,
         textures    |-> s.textures,
         node_groups |-> IF a.node_groups THEN s.node_groups \cup {o}
                         ELSE s.node_groups,
         collections |-> IF a.collections THEN s.collections \cup {o}
                         ELSE s.collections]

----------------------------------------------------------------------------
(* import_file(input_path) *)

ImportErrors == {MSG_bone, MSG_anim, MSG_other}

\* the test of line 468 on str(e)
IsAnimationError(msg) == AnyKeywordIn(AnimationErrorKeywords, Lower(msg))

\* faulty variant: every failed glTF import is retried
RetriesImport_AnyError(file_type, msg) == file_type = "gltf"

\* whether import_file makes a second attempt after the first one raised msg
RetriesImport(file_type, msg) == file_type = "gltf" /\ IsAnimationError(msg)

----------------------------------------------------------------------------
(* clean_material_properties(material) *)

IsSpecularTintName(name) == AnyKeywordIn(SpecularTintKeywords, Lower(name))

\* the test of lines 196-202 (and 389-400) on a node
IsSpecularTintNode(s, node) ==
    /\ node.type = "TEX_IMAGE" /\ node.image # 0
    /\ \/ IsSpecularTintName(s.images[node.image].name)
       \/ IsSpecularTintName(node.name)

SpecularInputNames == <<"Specular", "Specular IOR Level", "Specular Tint">>

\* the default written to one specular input (lines 228-242)
SpecularDefault(input_name, input) ==
    IF input_name = "Specular Tint"
    THEN IF input.kind = "float" THEN FloatInput(100)
         ELSE ColorInput(<<100, 100, 100, 100>>)
    ELSE IF input.kind = "float" THEN FloatInput(0)
         ELSE ColorInput(<<0, 0, 0, 100>>)

SeqToSet(q) == {q[i] : i \in 1..Len(q)}

RECURSIVE SelectSeq2(_, _)
SelectSeq2(q, keep) ==
    IF q = <<>> THEN <<>>
    ELSE (IF Head(q).nid \in keep THEN <<Head(q)>> ELSE <<>>)
         \o SelectSeq2(Tail(q), keep)

\* faulty variant: only the image name is tested for the tint keywords
NodesToRemove_ImageNameOnly(s, m) ==
    {n.nid : n \in {x \in SeqToSet(m.nodes) :
        \/ /\ x.type = "TEX_IMAGE" /\ x.image # 0
           /\ IsSpecularTintName(s.images[x.image].name)
        \/ x.type \in {"BSDF_GLOSSY", "BSDF_ANISOTROPIC"}}}

\* nodes_to_remove (node ids), in node order
NodesToRemove(s, m) ==
    {n.nid : n \in {x \in SeqToSet(m.nodes) :
        \/ IsSpecularTintNode(s, x)
        \/ x.type \in {"BSDF_GLOSSY", "BSDF_ANISOTROPIC"}}}

\* links_to_remove: the outgoing links of specular tint texture nodes and
\* the incoming links of the specular inputs of principled nodes
LinksToRemove(s, m) ==
    {l \in m.links :
        \/ \E n \in SeqToSet(m.nodes) :
              n.nid = l.from /\ IsSpecularTintNode(s, n)
        \/ \E n \in SeqToSet(m.nodes) :
              /\ n.nid = l.to /\ n.type = "BSDF_PRINCIPLED"
              /\ l.socket \in SeqToSet(SpecularInputNames)
              /\ l.socket \in DOMAIN n.inputs}

\* the material after clean_material_properties; failLinks and failNodes
\* are the removals that raise (each is swallowed or logged).  Removing a
\* node removes the links attached to it.
clean_material_properties(s, m, failLinks, failNodes) ==
    IF ~m.use_nodes
    THEN [m EXCEPT !.specular_intensity = 0,
                   !.edits = @ \o <<"flat_specular">>,
                   !.cleaned = TRUE]
    ELSE LET rmLinks == LinksToRemove(s, m) \ failLinks
             rmNodes == NodesToRemove(s, m) \ failNodes
             links1  == m.links \ rmLinks
             nodes1  == [i \in 1..Len(m.nodes) |->
                           IF m.nodes[i].type = "BSDF_PRINCIPLED"
                           THEN [m.nodes[i] EXCEPT !.inputs =
                                   [n \in DOMAIN @ |->
                                       IF n \in SeqToSet(SpecularInputNames)
                                       THEN SpecularDefault(n, @[n])
                                       ELSE @[n]]]
                           ELSE m.nodes[i]]
             keep    == {n.nid : n \in SeqToSet(m.nodes)} \ rmNodes
         IN  [m EXCEPT
                !.cleaned = TRUE,
                !.failed = @ + Cardinality(failLinks) + Cardinality(failNodes),
                !.nodes = SelectSeq2(nodes1, keep),
                !.links = {l \in links1 : l.from \in keep /\ l.to \in keep},
                !.edits = @ \o [i \in 1..Cardinality(LinksToRemove(s, m)) |-> "remove_link"]
                            \o [i \in 1..Cardinality(NodesToRemove(s, m)) |-> "remove_node"]]

----------------------------------------------------------------------------
(* process_material_textures(material): one pass of the loop body *)

BulkKey == "_bulk_processed"

\* the attributes hasattr() finds on a bpy.types.Image: its RNA properties.
\* A key written with image[key] = value is an ID custom property, read
\* back with image[key] or image.get(key), and is not an attribute.
ImageAttributes == {"name", "size", "packed_file", "file_format", "pixels",
                    "filepath", "filepath_raw", "source", "users"}

\* hasattr(image, '_bulk_processed')  (line 393)
AlreadyProcessed(image) == BulkKey \in ImageAttributes

\* image['_bulk_processed'] = True  (line 441)
MarkProcessed(image) == [image EXCEPT !.idprops = @ \cup {BulkKey}]

\* faulty variant: resize only when both dimensions exceed the target
NeedsResize_BothExceed(image) ==
    /\ image.size[1] > config.TARGET_RESOLUTION
    /\ image.size[2] > config.TARGET_RESOLUTION

\* the resize test of line 417
NeedsResize(image) ==
    \/ image.size[1] > config.TARGET_RESOLUTION
    \/ image.size[2] > config.TARGET_RESOLUTION

\* image.scale(TARGET_RESOLUTION, TARGET_RESOLUTION)
Scaled(image) ==
    [image EXCEPT !.size = <<config.TARGET_RESOLUTION, config.TARGET_RESOLUTION>>,
                  !.ops = Append(@, "scale")]

\* whether apply_texture_compression enters the save-and-reload block
RoundTrips(image, target_format) ==
    /\ target_format = "JPEG"
    /\ config.FORCE_COMPRESSION \/ image.file_format # "JPEG"

\* apply_texture_compression(image, target_format).  F: the host calls that
\* raise.  "compress": the first statement of the outer try raises and the
\* function ends; save_render/reload raising or pack() raising ends the
\* inner try block; all of them are only logged.
\* A reloaded image is read from the temporary file and is not packed.
apply_texture_compression(image, target_format, F) ==
    LET tagged == [image EXCEPT !.file_format = target_format,
                                !.ops = Append(@, "compress")]
    IN  IF "compress" \in F THEN [image EXCEPT !.ops = Append(@, "compress")]
        ELSE IF ~RoundTrips(image, target_format) THEN tagged
        ELSE IF "save_reload" \in F THEN tagged
        ELSE LET reloaded == [tagged EXCEPT !.lossy = TRUE, !.packed = FALSE,
                                            !.ops = Append(@, "round_trip")]
             IN  IF image.packed /\ "pack_inner" \notin F
                 THEN [reloaded EXCEPT !.packed = TRUE, !.ops = Append(@, "pack")]
                 ELSE reloaded

\* lines 405-441 for one texture node whose image is not skipped: the image
\* afterwards and whether image.scale raised (the exception leaves
\* process_material_textures; the image is then neither re-packed nor marked)
TransformImage(image, F) ==
    LET original_packed == image.packed
        target_format   == get_texture_format(image.name, "TEX_IMAGE", image)
        decided    == [image EXCEPT !.ops = Append(@, "decide")]
        compressed == apply_texture_compression(decided, target_format, F)
    IN  IF NeedsResize(compressed) /\ "scale" \in F
        THEN [image |-> compressed, raised |-> TRUE]
        ELSE LET resized  == IF NeedsResize(compressed) THEN Scaled(compressed)
                             ELSE compressed
                 repacked == IF original_packed /\ ~resized.packed
                                /\ "pack_outer" \notin F
                             THEN [resized EXCEPT !.packed = TRUE,
                                                  !.ops = Append(@, "pack")]
                             ELSE resized
             IN  [image |-> MarkProcessed([repacked EXCEPT !.ops = Append(@, "mark")]),
                  raised |-> FALSE]

\* the faults of F that one pass over the image actually meets
FaultsMet(image, F) ==
    LET fmt == get_texture_format(image.name, "TEX_IMAGE", image)
        rt  == "compress" \notin F /\ RoundTrips(image, fmt)
        reloadedOk == rt /\ "save_reload" \notin F
        unpacked   == image.packed /\ reloadedOk /\ "pack_inner" \in F
    IN  {"compress"}
        \cup (IF rt THEN {"save_reload"} ELSE {})
        \cup (IF reloadedOk /\ image.packed THEN {"pack_inner"} ELSE {})
        \cup (IF NeedsResize(image) THEN {"scale"} ELSE {})
        \cup (IF unpacked /\ ~(NeedsResize(image) /\ "scale" \in F)
              THEN {"pack_outer"} ELSE {})

TextureFaults == {"compress", "save_reload", "pack_inner", "scale", "pack_outer"}

RECURSIVE SortedIds(_)
SortedIds(S) ==
    IF S = {} THEN <<>>
    ELSE <<SetMin(S)>> \o SortedIds(S \ {SetMin(S)})

\* the materials the two loops of process_glb_file work on (users > 0)
UsedMaterials(s) == SortedIds({id \in DOMAIN s.materials : s.materials[id].users > 0})

\* the passes of the loop body of process_material_textures over one
\* material: the positions of its texture nodes that have an image
RECURSIVE TexturePasses(_, _, _)
TexturePasses(id, m, i) ==
    IF ~m.use_nodes \/ i > Len(m.nodes) THEN <<>>
    ELSE (IF m.nodes[i].type = "TEX_IMAGE" /\ m.nodes[i].image # 0
          THEN <<[mat |-> id, node |-> i]>> ELSE <<>>)
         \o TexturePasses(id, m, i + 1)

\* all passes of the second loop of process_glb_file, in order
RECURSIVE AllPasses(_, _)
AllPasses(s, ids) ==
    IF ids = <<>> THEN <<>>
    ELSE TexturePasses(Head(ids), s.materials[Head(ids)], 1)
         \o AllPasses(s, Tail(ids))

----------------------------------------------------------------------------
(* State *)

DefaultConfig ==
    [SKIP_EXISTING |-> TRUE, PRESERVE_FORMAT |-> FALSE,
     TARGET_RESOLUTION |-> 2, TEXTURE_FORMAT |-> "AUTO",
     AGGRESSIVE_JPEG_CONVERSION |-> TRUE, REMOVE_SPECULAR |-> TRUE,
     FORCE_COMPRESSION |-> TRUE]

ZeroStats ==
    [processed_count |-> 0, skipped_count |-> 0, error_count |-> 0,
     total_size_before |-> 0, total_size_after |-> 0]

IdleProc == [k |-> 0, pass |-> 0, textures |-> 0, success |-> FALSE]

\* Blender's startup scene (entry 0): a cube, its mesh, a collection
StartupScene ==
    [EmptyScene EXCEPT !.objects = {0}, !.meshes = {0}, !.collections = {0}]

LogEntry(pre) ==
    [pre |-> pre, route |-> "none", handled |-> 0, steps |-> <<>>,
     attempts |-> 0, degraded |-> 0, first_error |-> <<>>,
     texture_faults |-> {}, failed_at |-> "none", export_form |-> "none"]

NoQuery == [fn |-> "none"]
NoAnswer == [fn |-> "none"]

PureIdle == query = NoQuery /\ answer = NoAnswer

Dirs(n) == {d \in SUBSET FilePool : Cardinality(d) <= n}

BatchStart ==
    /\ glb_files = <<>>
    /\ pc = "start"
    /\ cursor = 0
    /\ stats = ZeroStats
    /\ scene = StartupScene
    /\ proc = IdleProc
    /\ fileLog = <<>>
    /\ summary = <<>>

Init ==
    /\ config \in {[DefaultConfig EXCEPT !.SKIP_EXISTING = s, !.PRESERVE_FORMAT = p] :
                      s \in BOOLEAN, p \in BOOLEAN}
    /\ host \in [ignorecase : BOOLEAN, faults_left : {MaxFaults}]
    /\ input_dir \in {[exists |-> FALSE, files |-> {}]}
                     \cup {[exists |-> TRUE, files |-> d] : d \in Dirs(MaxFiles)}
    /\ output_dir \in SUBSET {output_filename(f) : f \in input_dir.files}
    /\ BatchStart
    /\ PureIdle

----------------------------------------------------------------------------
(* main() *)

glb_file == glb_files[cursor]
output_file == output_filename(glb_file)

InLoop == pc = "loop" /\ cursor <= Len(glb_files)

LogStep(step) == [fileLog EXCEPT ![cursor].steps = Append(@, step)]

\* lines 662-664: the input directory does not exist
DirMissing ==
    /\ pc = "start" /\ ~input_dir.exists
    /\ pc' = "done"
    /\ UNCHANGED <<config, host, input_dir, output_dir, glb_files, cursor,
                   stats, scene, proc, fileLog, summary, query, answer>>

\* lines 667-685: enumerate; return when nothing matched
Enumerate ==
    /\ pc = "start" /\ input_dir.exists
    /\ \E listing \in Listings(input_dir.files) :
          LET files == EnumerateFrom(listing, 1) IN
          /\ glb_files' = files
          /\ fileLog' = [i \in 1..Len(files) |->
                           LogEntry(Exists(output_dir, output_filename(files[i])))]
          /\ IF files = <<>>
             THEN pc' = "done" /\ cursor' = cursor
             ELSE pc' = "loop" /\ cursor' = 1
    /\ stats' = ZeroStats
    /\ UNCHANGED <<config, host, input_dir, output_dir, scene, proc, summary,
                   query, answer>>

\* faulty variant: the size of the input is recorded before the skip test
SkipExisting_SizeRecorded ==
    /\ pc = "loop" /\ cursor <= Len(glb_files)
    /\ config.SKIP_EXISTING
    /\ Exists(output_dir, output_filename(glb_files[cursor]))
    /\ stats' = [stats EXCEPT !.skipped_count = @ + 1,
                              !.total_size_before = @ + 1 + InputSize(glb_files[cursor])]
    /\ fileLog' = [fileLog EXCEPT ![cursor].route = "skipped",
                                  ![cursor].handled = @ + 1]
    /\ cursor' = cursor + 1
    /\ UNCHANGED <<config, host, input_dir, output_dir, glb_files, pc, scene,
                   proc, summary, query, answer>>

\* lines 704-708: the output exists and SKIP_EXISTING is set
SkipExisting ==
    /\ InLoop
    /\ config.SKIP_EXISTING /\ Exists(output_dir, output_file)
    /\ stats' = [stats EXCEPT !.skipped_count = @ + 1]
    /\ fileLog' = [fileLog EXCEPT ![cursor].route = "skipped",
                                  ![cursor].handled = @ + 1]
    /\ cursor' = cursor + 1
    /\ UNCHANGED <<config, host, input_dir, output_dir, glb_files, pc, scene,
                   proc, summary, query, answer>>

\* lines 710-715: record the size and call process_glb_file
StartFile ==
    /\ InLoop
    /\ ~(config.SKIP_EXISTING /\ Exists(output_dir, output_file))
    /\ stats' = [stats EXCEPT !.total_size_before = @ + InputSize(glb_file)]
    /\ proc' = IdleProc
    /\ pc' = "clear"
    /\ UNCHANGED <<config, host, input_dir, output_dir, glb_files, cursor,
                   scene, fileLog, summary, query, answer>>

\* faulty variant: a failed file ends the loop
Account_StopsOnError ==
    /\ pc = "account"
    /\ IF proc.success
       THEN \E new_size \in (IF Exists(output_dir, output_filename(glb_files[cursor]))
                             THEN 1..MaxOutSize ELSE {0}) :
               stats' = [stats EXCEPT !.processed_count = @ + 1,
                                      !.total_size_after = @ + new_size]
       ELSE stats' = [stats EXCEPT !.error_count = @ + 1]
    /\ fileLog' = [fileLog EXCEPT
                     ![cursor].route = IF proc.success THEN "processed" ELSE "error",
                     ![cursor].handled = @ + 1]
    /\ cursor' = IF proc.success THEN cursor + 1 ELSE Len(glb_files) + 1
    /\ pc' = "loop"
    /\ UNCHANGED <<config, host, input_dir, output_dir, glb_files, scene, proc,
                   summary, query, answer>>

\* faulty variant: a failed file is not counted
Account_ErrorUncounted ==
    /\ pc = "account"
    /\ IF proc.success
       THEN \E new_size \in (IF Exists(output_dir, output_filename(glb_files[cursor]))
                             THEN 1..MaxOutSize ELSE {0}) :
               stats' = [stats EXCEPT !.processed_count = @ + 1,
                                      !.total_size_after = @ + new_size]
       ELSE stats' = stats
    /\ fileLog' = [fileLog EXCEPT
                     ![cursor].route = IF proc.success THEN "processed" ELSE "error",
                     ![cursor].handled = @ + 1]
    /\ cursor' = cursor + 1
    /\ pc' = "loop"
    /\ UNCHANGED <<config, host, input_dir, output_dir, glb_files, scene, proc,
                   summary, query, answer>>

\* lines 717-724: count the result of process_glb_file
Account ==
    /\ pc = "account"
    /\ IF proc.success
       THEN \E new_size \in (IF Exists(output_dir, output_file)
                             THEN 1..MaxOutSize ELSE {0}) :
               stats' = [stats EXCEPT !.processed_count = @ + 1,
                                      !.total_size_after = @ + new_size]
       ELSE stats' = [stats EXCEPT !.error_count = @ + 1]
    /\ fileLog' = [fileLog EXCEPT
                     ![cursor].route = IF proc.success THEN "processed" ELSE "error",
                     ![cursor].handled = @ + 1]
    /\ cursor' = cursor + 1
    /\ pc' = "loop"
    /\ UNCHANGED <<config, host, input_dir, output_dir, glb_files, scene, proc,
                   summary, query, answer>>

\* the percentage of lines 721 and 736, rounded down
Reduction(before, after) ==
    IF before > 0 THEN ((before - after) * 100) \div before ELSE 0

\* faulty variant: the summary may be written when one entry is still to be
\* handled
FinalSummary_BeforeLast ==
    /\ pc = "loop" /\ cursor >= Len(glb_files)
    /\ summary' = Append(summary,
          [found |-> Len(glb_files),
           processed |-> stats.processed_count,
           skipped |-> stats.skipped_count,
           errors |-> stats.error_count,
           reduction_shown |-> stats.processed_count > 0,
           reduction |-> Reduction(stats.total_size_before, stats.total_size_after)])
    /\ pc' = "done"
    /\ UNCHANGED <<config, host, input_dir, output_dir, glb_files, cursor,
                   stats, scene, proc, fileLog, query, answer>>

\* lines 726-737: the final summary
FinalSummary ==
    /\ pc = "loop" /\ cursor > Len(glb_files)
    /\ summary' = Append(summary,
          [found |-> Len(glb_files),
           processed |-> stats.processed_count,
           skipped |-> stats.skipped_count,
           errors |-> stats.error_count,
           reduction_shown |-> stats.processed_count > 0,
           reduction |-> Reduction(stats.total_size_before, stats.total_size_after)])
    /\ pc' = "done"
    /\ UNCHANGED <<config, host, input_dir, output_dir, glb_files, cursor,
                   stats, scene, proc, fileLog, query, answer>>

----------------------------------------------------------------------------
(* process_glb_file(input_path, output_path) *)

Spend(n) == [host EXCEPT !.faults_left = @ - n]

\* line 587: clear_scene(); it returns normally whether or not a step raised
ClearScene ==
    /\ pc = "clear"
    /\ \E failAt \in 0..Len(ClearSteps) :
          /\ failAt # 0 => host.faults_left > 0
          /\ scene' = clear_scene(scene, failAt)
          /\ host' = IF failAt = 0 THEN host ELSE Spend(1)
    /\ fileLog' = LogStep("clear")
    /\ pc' = "import"
    /\ UNCHANGED <<config, input_dir, output_dir, glb_files, cursor, stats,
                   proc, summary, query, answer>>

\* process_glb_file returns False (lines 591, 628, 633)
Fails(at) ==
    /\ proc' = [proc EXCEPT !.success = FALSE]
    /\ pc' = "account"

\* lines 459-464, 481-486: the first import attempt succeeds
ImportOk ==
    /\ pc = "import"
    /\ get_file_type(glb_file) # "unknown"
    /\ scene' = Imported(scene, cursor, glb_file)
    /\ fileLog' = [fileLog EXCEPT ![cursor].attempts = @ + 1,
                                  ![cursor].steps = Append(@, "import")]
    /\ pc' = "sanitize"
    /\ UNCHANGED <<config, host, input_dir, output_dir, glb_files, cursor,
                   stats, proc, summary, query, answer>>

\* lines 465-479, 487-493: the first attempt raises (or the type is unknown)
ImportRaises ==
    /\ pc = "import"
    /\ IF get_file_type(glb_file) = "unknown"
       THEN /\ fileLog' = [fileLog EXCEPT ![cursor].failed_at = "import"]
            /\ Fails("import")
            /\ host' = host
       ELSE /\ host.faults_left > 0
            /\ host' = Spend(1)
            /\ \E msg \in ImportErrors :
                  /\ fileLog' = [fileLog EXCEPT
                        ![cursor].attempts = @ + 1,
                        ![cursor].first_error = msg,
                        ![cursor].steps = Append(@, "import_raised"),
                        ![cursor].failed_at =
                            IF RetriesImport(get_file_type(glb_file), msg)
                            THEN @ ELSE "import"]
                  /\ IF RetriesImport(get_file_type(glb_file), msg)
                     THEN pc' = "retry" /\ proc' = proc
                     ELSE Fails("import")
    /\ UNCHANGED <<config, input_dir, output_dir, glb_files, cursor, stats,
                   scene, summary, query, answer>>

\* lines 470-477: the second attempt (import_pack_images=True); a file the
\* importer rejected once may be rejected again
ImportRetry ==
    /\ pc = "retry"
    /\ \E ok \in BOOLEAN :
          /\ scene' = IF ok THEN Imported(scene, cursor, glb_file) ELSE scene
          /\ fileLog' = [fileLog EXCEPT
                ![cursor].attempts = @ + 1,
                ![cursor].degraded = @ + 1,
                ![cursor].steps = Append(@, IF ok THEN "import" ELSE "import_raised"),
                ![cursor].failed_at = IF ok THEN @ ELSE "import"]
          /\ IF ok THEN pc' = "sanitize" /\ proc' = proc ELSE Fails("import")
    /\ UNCHANGED <<config, host, input_dir, output_dir, glb_files, cursor,
                   stats, summary, query, answer>>

\* lines 594-597: clean_material_properties on the next used material
CleanMaterial ==
    /\ pc = "sanitize"
    /\ config.REMOVE_SPECULAR
    /\ proc.k < Len(UsedMaterials(scene))
    /\ LET id == UsedMaterials(scene)[proc.k + 1]
           m  == scene.materials[id]
       IN  \E failLinks \in SUBSET LinksToRemove(scene, m),
              failNodes \in SUBSET NodesToRemove(scene, m) :
              /\ Cardinality(failLinks) + Cardinality(failNodes) <= host.faults_left
              /\ m.use_nodes \/ (failLinks = {} /\ failNodes = {})
              /\ host' = Spend(Cardinality(failLinks) + Cardinality(failNodes))
              /\ scene' = [scene EXCEPT !.materials[id] =
                    clean_material_properties(scene, m, failLinks, failNodes)]
    /\ proc' = [proc EXCEPT !.k = @ + 1]
    /\ fileLog' = LogStep("sanitize")
    /\ UNCHANGED <<config, input_dir, output_dir, glb_files, pc, cursor, stats,
                   summary, query, answer>>

\* faulty variant: the texture loop may start before the sanitizer loop ends
SanitizeDone_Early ==
    /\ pc = "sanitize"
    /\ pc' = "textures"
    /\ UNCHANGED <<config, host, input_dir, output_dir, glb_files, cursor,
                   stats, scene, proc, fileLog, summary, query, answer>>

\* the first loop over bpy.data.materials is over (or REMOVE_SPECULAR is off)
SanitizeDone ==
    /\ pc = "sanitize"
    /\ ~config.REMOVE_SPECULAR \/ proc.k >= Len(UsedMaterials(scene))
    /\ pc' = "textures"
    /\ UNCHANGED <<config, host, input_dir, output_dir, glb_files, cursor,
                   stats, scene, proc, fileLog, summary, query, answer>>

\* lines 388-441: one pass of the loop body of process_material_textures
TexturePass ==
    /\ pc = "textures"
    /\ proc.pass < Len(AllPasses(scene, UsedMaterials(scene)))
    /\ LET p     == AllPasses(scene, UsedMaterials(scene))[proc.pass + 1]
           node  == scene.materials[p.mat].nodes[p.node]
           image == scene.images[node.image]
       IN  IF AlreadyProcessed(image) \/ IsSpecularTintNode(scene, node)
           THEN /\ proc' = [proc EXCEPT !.pass = @ + 1]
                /\ UNCHANGED <<host, scene, fileLog, pc>>
           ELSE \E F \in SUBSET TextureFaults :
                   /\ F \subseteq FaultsMet(image, F)
                   /\ Cardinality(F) <= host.faults_left
                   /\ host' = Spend(Cardinality(F))
                   /\ LET r == TransformImage(image, F) IN
                      /\ scene' = [scene EXCEPT !.images[node.image] = r.image]
                      /\ IF r.raised
                         THEN /\ Fails("resize")
                              /\ fileLog' = [fileLog EXCEPT
                                    ![cursor].failed_at = "resize",
                                    ![cursor].texture_faults = @ \cup F,
                                    ![cursor].steps = Append(@, "texture_raised")]
                         ELSE /\ proc' = [proc EXCEPT !.pass = @ + 1,
                                                      !.textures = @ + 1]
                              /\ fileLog' = [fileLog EXCEPT
                                    ![cursor].texture_faults = @ \cup F,
                                    ![cursor].steps = Append(@, "texture")]
                              /\ pc' = pc
    /\ UNCHANGED <<config, input_dir, output_dir, glb_files, cursor, stats,
                   summary, query, answer>>

\* the second loop over bpy.data.materials is over
TexturesDone ==
    /\ pc = "textures"
    /\ proc.pass >= Len(AllPasses(scene, UsedMaterials(scene)))
    /\ pc' = "export"
    /\ UNCHANGED <<config, host, input_dir, output_dir, glb_files, cursor,
                   stats, scene, proc, fileLog, summary, query, answer>>

\* faulty variant: the extension of the output is compared as written
ExportForm_CaseSensitive(input_path, output_path) ==
    IF get_file_type(input_path) = "vrm" THEN "vrm"
    ELSE IF /\ config.PRESERVE_FORMAT
            /\ get_file_type(input_path) = "gltf"
            /\ output_path.suffix = EXT_gltf
         THEN "gltf"
         ELSE "glb"

\* lines 613-622: the form handed to export_file
ExportForm(input_path, output_path) ==
    IF get_file_type(input_path) = "vrm" THEN "vrm"
    ELSE IF /\ config.PRESERVE_FORMAT
            /\ get_file_type(input_path) = "gltf"
            /\ Lower(output_path.suffix) = EXT_gltf
         THEN "gltf"
         ELSE "glb"

\* lines 612-628 with export_file: the export succeeds, or raises and may
\* leave a partial file behind
ExportFile ==
    /\ pc = "export"
    /\ \E ok \in BOOLEAN, partial \in BOOLEAN :
          /\ ~ok => host.faults_left > 0
          /\ ok => ~partial
          /\ host' = IF ok THEN host ELSE Spend(1)
          /\ output_dir' = IF ok \/ partial THEN WithFile(output_dir, output_file)
                           ELSE output_dir
          /\ proc' = [proc EXCEPT !.success = ok]
          /\ fileLog' = [fileLog EXCEPT
                ![cursor].export_form = ExportForm(glb_file, output_file),
                ![cursor].steps = Append(@, IF ok THEN "export" ELSE "export_raised"),
                ![cursor].failed_at = IF ok THEN @ ELSE "export"]
    /\ pc' = "account"
    /\ UNCHANGED <<config, input_dir, glb_files, cursor, stats, scene, summary,
                   query, answer>>

Next ==
    \/ DirMissing
    \/ Enumerate
    \/ SkipExisting
    \/ StartFile
    \/ ClearScene
    \/ ImportOk
    \/ ImportRaises
    \/ ImportRetry
    \/ CleanMaterial
    \/ SanitizeDone
    \/ TexturePass
    \/ TexturesDone
    \/ ExportFile
    \/ Account
    \/ FinalSummary

Spec == Init /\ [][Next]_vars

\* the configurations drawn for runs that look inside one asset
AssetConfigs ==
    {[DefaultConfig EXCEPT !.TARGET_RESOLUTION = t, !.TEXTURE_FORMAT = f,
                           !.AGGRESSIVE_JPEG_CONVERSION = a,
                           !.REMOVE_SPECULAR = r, !.FORCE_COMPRESSION = c] :
        t \in 1..MaxDim, f \in {"AUTO", "PNG", "JPEG"}, a \in BOOLEAN,
        r \in BOOLEAN, c \in BOOLEAN}

\* one input file at a time, under every texture configuration
InitAsset ==
    /\ config \in AssetConfigs
    /\ host = [ignorecase |-> FALSE, faults_left |-> MaxFaults]
    /\ input_dir \in {[exists |-> FALSE, files |-> {}]}
                     \cup {[exists |-> TRUE, files |-> {f}] : f \in FilePool}
    /\ output_dir \in SUBSET {output_filename(f) : f \in input_dir.files}
    /\ BatchStart
    /\ PureIdle

SpecAsset == InitAsset /\ [][Next]_vars

----------------------------------------------------------------------------
(* The two pure functions, applied to drawn arguments *)

NamePool ==
    {NM_body_diffuse, NM_Body_Normal, NM_hair_NRM, NM_Bump, NM_ROUGHNESS,
     NM_metallicMap, NM_AlphaMask, NM_opacity, NM_leaf_mask, NM_norma,
     NM_skin, NM_SpecTint}

\* alpha planes around the multiples of the sample limit
AlphaCounts ==
    {k * SampleLimit + d : k \in 0..MaxBlocks, d \in {0, 1, 500, 999}}

PixelsOfCount(n) ==
    {[len |-> 4 * n + r, low |-> low, lowVal |-> v, readable |-> ok] :
        r \in {0, 2},
        low \in {{}, {0}, {1}, {n - 1}} \cap SUBSET (0..(n - 1)),
        v \in {AlphaThreshold - 1, AlphaThreshold}, ok \in BOOLEAN}

SamplePixels == UNION {PixelsOfCount(n) : n \in AlphaCounts}

PxImage(px) == Img(NM_skin, 1, 1, TRUE, "PNG", px)

DecideImages ==
    {NoImage, PxImage(Px(16, {})), PxImage(Px(16, {2})), PxImage(Px(18, {2})),
     PxImage([Px(16, {2}) EXCEPT !.readable = FALSE])}

BatchOff ==
    /\ host = [ignorecase |-> FALSE, faults_left |-> 0]
    /\ input_dir = [exists |-> FALSE, files |-> {}]
    /\ output_dir = {}
    /\ glb_files = <<>>
    /\ pc = "off"
    /\ cursor = 0
    /\ stats = ZeroStats
    /\ scene = StartupScene
    /\ proc = IdleProc
    /\ fileLog = <<>>
    /\ summary = <<>>

InitPure ==
    /\ BatchOff
    /\ answer = NoAnswer
    /\ \/ /\ config \in {[DefaultConfig EXCEPT !.TEXTURE_FORMAT = f,
                                               !.AGGRESSIVE_JPEG_CONVERSION = a] :
                            f \in {"AUTO", "PNG", "JPEG"}, a \in BOOLEAN}
          /\ query \in {[fn |-> "decide", name |-> n, image |-> i] :
                           n \in NamePool, i \in DecideImages}
       \/ /\ config = DefaultConfig
          /\ query \in {[fn |-> "sample", image |-> PxImage(px)] :
                           px \in SamplePixels}

\* get_texture_format(image.name, node.type, image)
Decide ==
    /\ query.fn = "decide" /\ answer = NoAnswer
    /\ answer' = [fn |-> "decide",
                  format |-> get_texture_format(query.name, "TEX_IMAGE", query.image)]
    /\ UNCHANGED <<batchVars, query>>

\* has_alpha_channel(image)
Sample ==
    /\ query.fn = "sample" /\ answer = NoAnswer
    /\ answer' = [fn |-> "sample",
                  result |-> has_alpha_channel(query.image),
                  path |-> AlphaPath(query.image),
                  inspected |-> IF AlphaPath(query.image) = "scan"
                                THEN AlphaScan(query.image.pixels).inspected
                                ELSE {}]
    /\ UNCHANGED <<batchVars, query>>

NextPure == Decide \/ Sample

SpecPure == InitPure /\ [][NextPure]_vars

----------------------------------------------------------------------------
(* Properties *)

CountOp(ops, name) == Cardinality({i \in 1..Len(ops) : ops[i] = name})

\* no file is enumerated twice
DistinctEntries ==
    \A i, j \in 1..Len(glb_files) : i # j => glb_files[i] # glb_files[j]

\* C1: with SKIP_EXISTING set, an entry whose output exists when the loop
\* reaches it only increments skipped_count: the other counters, both size
\* totals, the scene and the output directory are unchanged, and the entry
\* is never cleared for, imported, transformed or exported.
C1_SkipStep == InLoop /\ config.SKIP_EXISTING /\ Exists(output_dir, output_file)

C1_SkippedFileUntouched ==
    /\ [](\A i \in DOMAIN fileLog :
            fileLog[i].route = "skipped" =>
                /\ fileLog[i].steps = <<>>
                /\ fileLog[i].attempts = 0
                /\ fileLog[i].export_form = "none"
                /\ fileLog[i].handled = 1)
    /\ [][C1_SkipStep =>
            /\ stats' = [stats EXCEPT !.skipped_count = @ + 1]
            /\ scene' = scene
            /\ output_dir' = output_dir
            /\ fileLog'[cursor].route = "skipped"
            /\ cursor' = cursor + 1]_vars

C1_Witness ==
    \E i, j \in DOMAIN fileLog :
        fileLog[i].route = "skipped" /\ fileLog[j].route = "processed"

\* C2: with SKIP_EXISTING set, N distinct enumerated files of which K have
\* their output present when the batch starts, and no failure of the asset
\* processor, end with processed = N - K, skipped = K, errors = 0.
C2_CountsFromInitialOutputs ==
    ( /\ pc = "done" /\ glb_files # <<>>
      /\ config.SKIP_EXISTING
      /\ DistinctEntries
      /\ \A i \in DOMAIN fileLog : fileLog[i].route # "error" )
    => LET N == Len(glb_files)
           K == Cardinality({i \in DOMAIN fileLog : fileLog[i].pre})
       IN  /\ stats.processed_count = N - K
           /\ stats.skipped_count = K
           /\ stats.error_count = 0

\* C3 as stated: whenever the first import attempt fails, exactly one
\* further attempt in the degraded mode is made.
C3_ImportDecided(i) ==
    /\ i \in DOMAIN fileLog
    /\ fileLog[i].first_error # <<>>
    /\ ~(i = cursor /\ pc = "retry")

C3_EveryFailureRetriedOnce ==
    \A i \in DOMAIN fileLog :
        C3_ImportDecided(i) =>
            fileLog[i].attempts = 2 /\ fileLog[i].degraded = 1

\* C3 as amended: a failed first attempt is followed by exactly one further
\* attempt when the file is a .glb/.gltf and the lower-cased error message
\* contains "bone" or "animation", and the asset then fails only if that
\* attempt fails too; every other failed first attempt (a .vrm, or another
\* message) fails the asset at once, with no further attempt.
C3_RetryOnlyForAnimationErrors ==
    \A i \in DOMAIN fileLog :
        /\ fileLog[i].attempts <= 2
        /\ fileLog[i].first_error = <<>> => fileLog[i].degraded = 0
        /\ C3_ImportDecided(i) =>
              IF /\ Lower(glb_files[i].suffix) \in {EXT_glb, EXT_gltf}
                 /\ \/ Contains(Lower(fileLog[i].first_error), KW_bone)
                    \/ Contains(Lower(fileLog[i].first_error), KW_animation)
              THEN /\ fileLog[i].attempts = 2 /\ fileLog[i].degraded = 1
                   /\ fileLog[i].failed_at = "import" <=>
                         fileLog[i].steps[Len(fileLog[i].steps)] = "import_raised"
              ELSE /\ fileLog[i].attempts = 1 /\ fileLog[i].degraded = 0
                   /\ fileLog[i].failed_at = "import"

C3_Witness ==
    \E i \in DOMAIN fileLog :
        /\ fileLog[i].degraded = 1 /\ fileLog[i].failed_at = "import"
        /\ fileLog[i].route = "error"

\* C4: a file on which process_glb_file fails adds one to error_count and
\* nothing to processed_count; every entry before the cursor has been
\* handled exactly once, whatever failed before it, and the loop ends with
\* every enumerated entry handled.
C4_FailureIsCountedAndLoopGoesOn ==
    /\ \A i \in DOMAIN fileLog :
          /\ fileLog[i].handled = (IF i < cursor THEN 1 ELSE 0)
          /\ (i < cursor /\ fileLog[i].failed_at # "none") => fileLog[i].route = "error"
          /\ fileLog[i].route = "error" => fileLog[i].failed_at # "none"
    /\ stats.error_count =
          Cardinality({i \in DOMAIN fileLog : fileLog[i].failed_at # "none" /\ i < cursor})
    /\ stats.processed_count + stats.skipped_count =
          Cardinality({i \in DOMAIN fileLog : fileLog[i].failed_at = "none" /\ i < cursor})
    /\ (pc = "done" /\ glb_files # <<>>) => cursor = Len(glb_files) + 1

C4_Witness ==
    \E i, j \in DOMAIN fileLog :
        /\ i < j
        /\ fileLog[i].route = "error"
        /\ fileLog[j].route \in {"processed", "skipped"}

\* C5: when the import of an entry begins, the scene holds no datablock of
\* an earlier entry, also when a teardown step of clear_scene raised (stated
\* for runs that enumerate every file once).
C5_SceneTornDownBeforeImport ==
    (pc = "import" /\ DistinctEntries) =>
        SceneOwners(scene) \cap 1..(cursor - 1) = {}

\* C6: within one asset a texture is decided, compressed and marked at most
\* once, however many texture nodes it is bound to.
C6_SharedTextureProcessedOnce ==
    \A id \in DOMAIN scene.images :
        /\ CountOp(scene.images[id].ops, "decide") <= 1
        /\ CountOp(scene.images[id].ops, "compress") <= 1
        /\ CountOp(scene.images[id].ops, "mark") <= 1

\* C7: a texture whose resize or encode failed does not fail its asset:
\* the asset still reaches export and is not counted as an error because
\* of that texture.
C7_TextureFailureStaysLocal ==
    \A i \in DOMAIN fileLog :
        (i < cursor /\ fileLog[i].texture_faults \cap {"compress", "save_reload", "scale"} # {})
            => /\ fileLog[i].export_form # "none"
               /\ fileLog[i].failed_at # "resize"

\* C8: for every texture whose transform has run to its end (it carries the
\* mark): if its width or height exceeded TARGET_RESOLUTION, both now equal
\* TARGET_RESOLUTION and image.scale ran once; otherwise image.scale never
\* ran and the size is the imported one.
C8_ResizeToExactTarget ==
    \A id \in DOMAIN scene.images :
        LET im == scene.images[id]
            T  == config.TARGET_RESOLUTION
        IN  BulkKey \in im.idprops =>
               IF im.orig[1] > T \/ im.orig[2] > T
               THEN im.size = <<T, T>> /\ CountOp(im.ops, "scale") = 1
               ELSE im.size = im.orig /\ CountOp(im.ops, "scale") = 0

C8_Witness ==
    \E id \in DOMAIN scene.images :
        LET im == scene.images[id] IN
        /\ BulkKey \in im.idprops
        /\ im.orig[1] < config.TARGET_RESOLUTION
        /\ im.orig[2] > config.TARGET_RESOLUTION
        /\ im.size = <<config.TARGET_RESOLUTION, config.TARGET_RESOLUTION>>

\* C9: get_texture_format returns the forced format under PNG or JPEG;
\* otherwise PNG when the lower-cased name contains a precision keyword;
\* otherwise, with aggressive conversion, PNG exactly when an image is given
\* and the sampler reports transparency; otherwise PNG exactly when the
\* lower-cased name contains alpha, opacity or mask; JPEG in the other cases.
C9_HasAny(name, keywords) == \E k \in keywords : Contains(Lower(name), k)

C9_FormatDecision ==
    answer.fn = "decide" =>
        LET fmt == answer.format
            transparent == ~IsNone(query.image) /\ has_alpha_channel(query.image)
        IN  /\ fmt \in {"PNG", "JPEG"}
            /\ config.TEXTURE_FORMAT = "PNG" => fmt = "PNG"
            /\ config.TEXTURE_FORMAT = "JPEG" => fmt = "JPEG"
            /\ config.TEXTURE_FORMAT = "AUTO" =>
                  IF C9_HasAny(query.name, {KW_normal, KW_nrm, KW_bump, KW_roughness, KW_metallic})
                  THEN fmt = "PNG"
                  ELSE IF config.AGGRESSIVE_JPEG_CONVERSION
                       THEN fmt = "PNG" <=> transparent
                       ELSE fmt = "PNG" <=>
                               C9_HasAny(query.name, {KW_alpha, KW_opacity, KW_mask})

C9_Witness ==
    /\ answer.fn = "decide"
    /\ config.TEXTURE_FORMAT = "AUTO" /\ config.AGGRESSIVE_JPEG_CONVERSION
    /\ C9_HasAny(query.name, {KW_normal})
    /\ ~IsNone(query.image) /\ ~has_alpha_channel(query.image)
    /\ answer.format = "PNG"

\* C10: on a buffer whose length is a multiple of 4 the sampler reads at
\* most 1000 alpha values, at indices 0, s, 2s, ... with
\* s = max(1, A div 1000), answers True at the first one below 0.98 and
\* False when none is.
C10_SamplerReadsAtMostLimit ==
    (answer.fn = "sample" /\ answer.path = "scan") =>
        LET px == query.image.pixels
            A  == px.len \div 4
            s  == IF A \div 1000 >= 1 THEN A \div 1000 ELSE 1
        IN  /\ Cardinality(answer.inspected) <= 1000
            /\ \A i \in answer.inspected : i % s = 0 /\ i < A
            /\ answer.result <=> \E i \in answer.inspected : AlphaAt(px, i) < 98
            /\ ~answer.result => answer.inspected = {i \in 0..(A - 1) : i % s = 0}

\* the phase of process_glb_file a logged step belongs to
StepPhase(step) ==
    CASE step = "clear" -> 1
      [] step \in {"import_raised", "import"} -> 2
      [] step = "sanitize" -> 3
      [] step \in {"texture", "texture_raised"} -> 4
      [] step \in {"export", "export_raised"} -> 5

HasStep(i, names) == \E n \in 1..Len(fileLog[i].steps) : fileLog[i].steps[n] \in names

\* C11: for every asset handed to process_glb_file the logged steps run in
\* the order clear, import, sanitize, textures, export; when a texture has
\* been transformed the sanitizer has run on every used material (with
\* REMOVE_SPECULAR set) and never runs afterwards; an export is attempted
\* only after a successful import and after the last texture pass; and the
\* asset is counted as processed only when export returned success.
C11_StepsInOrder ==
    \A i \in DOMAIN fileLog :
        LET steps == fileLog[i].steps IN
        /\ steps # <<>> => steps[1] = "clear"
        /\ \A a, b \in 1..Len(steps) :
              a < b => /\ StepPhase(steps[a]) <= StepPhase(steps[b])
                       /\ steps[a] \notin {"import", "texture_raised",
                                           "export", "export_raised"}
                            \/ steps[a] # steps[b]
                       /\ steps[a] = "texture_raised" => b = a
        /\ CountOp(steps, "clear") <= 1
        /\ HasStep(i, {"sanitize", "texture", "texture_raised",
                       "export", "export_raised"}) => HasStep(i, {"import"})
        /\ HasStep(i, {"export", "export_raised"}) => ~HasStep(i, {"texture_raised"})
        /\ (i = cursor /\ pc \in {"textures", "export", "account"}
              /\ HasStep(i, {"texture", "texture_raised", "export", "export_raised"}))
             => /\ config.REMOVE_SPECULAR =>
                      /\ CountOp(steps, "sanitize") = Len(UsedMaterials(scene))
                      /\ proc.k = Len(UsedMaterials(scene))
                /\ ~config.REMOVE_SPECULAR => CountOp(steps, "sanitize") = 0
        /\ (i = cursor /\ pc = "account" /\ HasStep(i, {"export", "export_raised"}))
             => proc.pass = Len(AllPasses(scene, UsedMaterials(scene)))
        /\ (i = cursor /\ pc = "account") =>
              (proc.success <=> steps[Len(steps)] = "export")
        /\ fileLog[i].route = "processed" => steps[Len(steps)] = "export"
        /\ fileLog[i].route = "error" => steps[Len(steps)] # "export"

C11_Witness ==
    \E i \in DOMAIN fileLog :
        /\ fileLog[i].route = "processed"
        /\ CountOp(fileLog[i].steps, "sanitize") >= 2
        /\ CountOp(fileLog[i].steps, "texture") >= 2
        /\ HasStep(i, {"export"})

\* every name the six glob patterns can yield, in every spelling of the model
C12_Names ==
    {File(stem, suffix) : stem \in {"a", "b", "c"},
                          suffix \in {EXT_glb, EXT_GLB, EXT_gltf, EXT_GLTF,
                                      EXT_Gltf, EXT_vrm, EXT_VRM}}

\* the agreement of output name and export form the claim states for one file
C12_Agree(f, out, form) ==
    /\ out.stem = f.stem
    /\ IF Lower(f.suffix) = EXT_vrm
       THEN out.suffix = EXT_vrm /\ form = "vrm"
       ELSE /\ form = "gltf" <=>
                  (config.PRESERVE_FORMAT /\ Lower(out.suffix) = EXT_gltf)
            /\ form # "gltf" => (Lower(out.suffix) = EXT_glb /\ form = "glb")
            /\ config.PRESERVE_FORMAT => out = f
            /\ ~config.PRESERVE_FORMAT => out.suffix = EXT_glb

\* C12: for every input name and either value of PRESERVE_FORMAT the output
\* name and the export form agree: a .vrm input gets a .vrm name and the vrm
\* export; a .glb/.gltf input is exported as gltf exactly when
\* PRESERVE_FORMAT is set and the lower-cased output extension is .gltf, and
\* otherwise has the .glb extension and the glb export (config is fixed for a
\* run, so the names are gone through once, at the start). Every export
\* that was attempted used the form and the name so determined.
C12_NameAndFormAgree ==
    /\ pc = "start" =>
          \A f \in C12_Names :
              C12_Agree(f, output_filename(f), ExportForm(f, output_filename(f)))
    /\ \A i \in DOMAIN fileLog :
          fileLog[i].export_form # "none" =>
              /\ C12_Agree(glb_files[i], output_filename(glb_files[i]),
                           fileLog[i].export_form)
              /\ fileLog[i].route = "processed" =>
                    Exists(output_dir, output_filename(glb_files[i]))

C12_Witness ==
    \E i \in DOMAIN fileLog :
        /\ glb_files[i].suffix = EXT_Gltf
        /\ fileLog[i].export_form = "gltf"
        /\ fileLog[i].route = "processed"

C13_TintNamed(name) ==
    \/ Contains(Lower(name), KW_specular_tint)
    \/ Contains(Lower(name), KW_spectint)
    \/ Contains(Lower(name), KW_spec_tint)
    \/ Contains(Lower(name), KW_specular_tint_sp)

\* the materials the claim is about: used, node based, cleaned with
\* REMOVE_SPECULAR set, and no removal raised
C13_Sanitized ==
    {id \in DOMAIN scene.materials :
        /\ config.REMOVE_SPECULAR
        /\ scene.materials[id].users > 0
        /\ scene.materials[id].use_nodes
        /\ scene.materials[id].cleaned
        /\ scene.materials[id].failed = 0}

\* what the claim states of every node but the tint texture nodes: the
\* specular inputs of principled nodes are unlinked and reset, no glossy or
\* anisotropic node remains, and link removals precede node removals
C13_SpecularStripped(m) ==
    /\ \A n \in SeqToSet(m.nodes) :
          /\ n.type \notin {"BSDF_GLOSSY", "BSDF_ANISOTROPIC"}
          /\ n.type = "BSDF_PRINCIPLED" =>
                /\ ~\E l \in m.links :
                       l.to = n.nid /\ l.socket \in {"Specular", "Specular IOR Level",
                                                     "Specular Tint"}
                /\ \A name \in DOMAIN n.inputs :
                      /\ name = "Specular Tint" =>
                            n.inputs[name].default_value =
                               IF n.inputs[name].kind = "float" THEN 100
                               ELSE <<100, 100, 100, 100>>
                      /\ name \in {"Specular", "Specular IOR Level"} =>
                            n.inputs[name].default_value =
                               IF n.inputs[name].kind = "float" THEN 0
                               ELSE <<0, 0, 0, 100>>
    /\ \A a, b \in 1..Len(m.edits) :
          (m.edits[a] = "remove_node" /\ m.edits[b] = "remove_link") => b < a

C14_SummaryReportsTotals ==
    summary # <<>> =>
        /\ pc = "done"
        /\ cursor = Len(glb_files) + 1
        /\ \A i \in DOMAIN fileLog : fileLog[i].handled = 1
        /\ summary[1].found = Len(glb_files)
        /\ summary[1].processed = stats.processed_count
        /\ summary[1].skipped = stats.skipped_count
        /\ summary[1].errors = stats.error_count

\* C14 as stated: a run whose input directory exists has, when it has
\* ended, written the summary exactly once, after the last file, with the
\* four totals and the size-reduction percentage, for every number of
\* files (zero included) and also when no file was processed.
C14_SummaryAlwaysWithReduction ==
    /\ Len(summary) <= 1
    /\ C14_SummaryReportsTotals
    /\ (pc = "done" /\ input_dir.exists) =>
          /\ Len(summary) = 1
          /\ summary[1].reduction_shown

\* C14 as amended: a run that enumerated at least one file has, when it has
\* ended, written the summary exactly once, after the last file has been
\* handled, with the totals found, processed, skipped and errors; the
\* size-reduction percentage is part of it exactly when at least one file
\* was processed. A run that enumerated no file ends without a summary.
C14_SummaryOnceWhenFilesFound ==
    /\ Len(summary) <= 1
    /\ C14_SummaryReportsTotals
    /\ summary # <<>> =>
          /\ glb_files # <<>>
          /\ summary[1].reduction_shown <=> stats.processed_count > 0
          /\ summary[1].reduction =
                Reduction(stats.total_size_before, stats.total_size_after)
    /\ (pc = "done" /\ glb_files = <<>>) => summary = <<>>
    /\ (pc = "done" /\ glb_files # <<>>) => Len(summary) = 1

C14_Witness ==
    /\ pc = "done" /\ Len(summary) = 1
    /\ summary[1].found = 2 /\ summary[1].processed = 0
    /\ summary[1].errors = 1 /\ summary[1].skipped = 1
    /\ ~summary[1].reduction_shown

\* C15: for each texture the transform runs resize, encode, re-embed, mark:
\* for a texture that exceeds TARGET_RESOLUTION and is encoded as JPEG,
\* image.scale never runs after the save-and-reload round trip, so the
\* image held at export is the result of the round trip.
C15_ResizeBeforeEncode ==
    \A id \in DOMAIN scene.images :
        LET ops == scene.images[id].ops IN
        \A a, b \in 1..Len(ops) :
            a < b => ~(ops[a] = "round_trip" /\ ops[b] = "scale")

C16_Sum(st) == st.processed_count + st.skipped_count + st.error_count

\* C16: in every state of the batch loop processed + skipped + errors
\* equals the number of enumerated entries already handled; every step that
\* finishes an entry adds one to exactly one of the three counters, every
\* other step leaves the three unchanged, so no counter ever decreases; and
\* when the loop has ended the sum is the number of files found.
C16_CountersPartitionHandled ==
    /\ [](/\ C16_Sum(stats) = Cardinality({i \in DOMAIN fileLog : fileLog[i].handled = 1})
          /\ \A i \in DOMAIN fileLog : fileLog[i].handled \in {0, 1}
          /\ glb_files # <<>> => C16_Sum(stats) = cursor - 1
          /\ (pc = "done" /\ input_dir.exists) => C16_Sum(stats) = Len(glb_files)
          /\ stats.processed_count =
                Cardinality({i \in DOMAIN fileLog : fileLog[i].route = "processed"})
          /\ stats.skipped_count =
                Cardinality({i \in DOMAIN fileLog : fileLog[i].route = "skipped"})
          /\ stats.error_count =
                Cardinality({i \in DOMAIN fileLog : fileLog[i].route = "error"}))
    /\ [][/\ stats'.processed_count >= stats.processed_count
          /\ stats'.skipped_count >= stats.skipped_count
          /\ stats'.error_count >= stats.error_count
          /\ IF pc # "start" /\ cursor' # cursor
             THEN /\ cursor' = cursor + 1
                  /\ fileLog'[cursor].handled = fileLog[cursor].handled + 1
                  /\ C16_Sum(stats') = C16_Sum(stats) + 1
             ELSE C16_Sum(stats') = C16_Sum(stats)]_vars

C16_Witness ==
    /\ pc = "loop" /\ cursor = 2 /\ Len(glb_files) = 2
    /\ stats.error_count = 1 /\ stats.processed_count = 0
    /\ stats.skipped_count = 0

====
